---- MODULE Spec2Model ----
(***************************************************************************)
(* Model of the instrumented code cache of the contracts pallet            *)
(* (frame/contracts/src/wasm/code_cache.rs): the two storage maps          *)
(* PristineCode and CodeStorage and the two operations store and load.     *)
(***************************************************************************)
EXTENDS Integers, FiniteSets, Sequences, TLC

(***************************************************************************)
(* Bounds of the model.                                                    *)
(***************************************************************************)
\* schedule versions range over 1..MaxVersion
MaxVersion == 2
\* the largest value of the refcount type (u64::MAX, scaled down); refcounts
\* range over 0..MaxRefcount
MaxRefcount == 2

\* two raw codes, and their two hashes
Codes == {1, 2}
CodeHashes == {1, 2}
Versions == 1..MaxVersion
Refcounts == 0..MaxRefcount

(***************************************************************************)
(* Option<T>: None is the empty tuple, Some(x) the one-element tuple.      *)
(***************************************************************************)
None == <<>>
Some(x) == <<x>>
Unwrap(o) == o[1]

\* what mem::take leaves in the code_hash field of a module
DefaultHash == 0

\* T::Hashing::hash: a collision-free digest of the raw code
Digest(code) == IF code = 1 THEN 2 ELSE 1

\* the instrumented code prepare_contract produces for a raw code under a
\* schedule: an uninterpreted term, distinct for distinct arguments
Instrument(original_code, schedule) ==
    [src |-> original_code, ver |-> schedule.version]

Schedules == [version : Versions]

\* the original code a module with the given hash may carry: none, or the
\* code the hash is the digest of
OriginalCodes(code_hash) ==
    {None} \cup {Some(c) : c \in {d \in Codes : Digest(d) = code_hash}}

\* PrefabWasmModule as passed to store: the instrumented form of some code
\* under the version it states, any refcount, with or without original code
PrefabWasmModule ==
    UNION {{[schedule_version |-> v, code |-> Instrument(c, [version |-> v]),
             refcount |-> r, code_hash |-> h, original_code |-> o] :
                v \in Versions, c \in Codes, r \in Refcounts,
                o \in OriginalCodes(h)} : h \in CodeHashes}

\* the part of a PrefabWasmModule that CodeStorage keeps under the hash
ToStorage(module) ==
    [schedule_version |-> module.schedule_version,
     code |-> module.code,
     refcount |-> module.refcount]

\* a PrefabWasmModule read back from CodeStorage: hash and original code are
\* not stored
FromStorage(rec) ==
    [schedule_version |-> rec.schedule_version,
     code |-> rec.code,
     refcount |-> rec.refcount,
     code_hash |-> DefaultHash,
     original_code |-> None]

\* prepare::prepare_contract: fallible; on success a fresh module derived
\* from original_code under schedule, with refcount 1.  `accepted` is the
\* outcome of the validation of the code under the schedule.
prepare_contract(original_code, schedule, accepted) ==
    IF accepted
    THEN [tag |-> "Ok",
          module |-> [schedule_version |-> schedule.version,
                      code |-> Instrument(original_code, schedule),
                      refcount |-> 1,
                      code_hash |-> Digest(original_code),
                      original_code |-> Some(original_code)]]
    ELSE [tag |-> "Err", error |-> "InstrumentationFailed"]

(***************************************************************************)
(* store                                                                   *)
(***************************************************************************)
\* <PristineCode<T>>::insert(&code_hash, code) if the module carries the
\* original code
PutPristineNever(pc, code_hash, original_code) == pc
PutPristineAlways(pc, code_hash, original_code) ==
    [pc EXCEPT ![code_hash] = original_code]
PutPristine(pc, code_hash, original_code) ==
    IF original_code # None
    THEN [pc EXCEPT ![code_hash] = original_code]
    ELSE pc

\* refcount += 1 in the width of the refcount type
AddOne(refcount) == (refcount + 1) % (MaxRefcount + 1)

\* refcount += 1 overflows
Overflows(existing) ==
    existing # None /\ Unwrap(existing).refcount = MaxRefcount

\* the closure of <CodeStorage<T>>::mutate: increment the refcount of the
\* existing module, or put the given one
MutateOverwrite(existing, prefab_module) == Some(ToStorage(prefab_module))
MutateKeep(existing, prefab_module) ==
    IF existing # None THEN existing ELSE Some(ToStorage(prefab_module))
Mutate(existing, prefab_module) ==
    IF existing # None
    THEN Some([Unwrap(existing) EXCEPT !.refcount = AddOne(@)])
    ELSE Some(ToStorage(prefab_module))

\* store(prefab_module): the new storage and the returned hash.  With
\* overflow checks compiled in, the increment of a refcount at the maximum
\* panics: the PristineCode write has happened, the mutate has not.
storeReturnsTaken(cs, pc, prefab_module, overflow_checks) ==
    LET code_hash == prefab_module.code_hash
        taken == [prefab_module EXCEPT !.code_hash = DefaultHash,
                                       !.original_code = None]
        panics == overflow_checks /\ Overflows(cs[code_hash])
    IN  [PristineCode |-> PutPristine(pc, code_hash, prefab_module.original_code),
         CodeStorage |-> IF panics THEN cs
                         ELSE [cs EXCEPT ![code_hash] = Mutate(cs[code_hash], taken)],
         panic |-> panics,
         ret |-> IF panics THEN None ELSE Some(taken.code_hash)]
store(cs, pc, prefab_module, overflow_checks) ==
    LET code_hash == prefab_module.code_hash
        taken == [prefab_module EXCEPT !.code_hash = DefaultHash,
                                       !.original_code = None]
        panics == overflow_checks /\ Overflows(cs[code_hash])
    IN  [PristineCode |-> PutPristine(pc, code_hash, prefab_module.original_code),
         CodeStorage |-> IF panics THEN cs
                         ELSE [cs EXCEPT ![code_hash] = Mutate(cs[code_hash], taken)],
         panic |-> panics,
         ret |-> IF panics THEN None ELSE Some(code_hash)]

(***************************************************************************)
(* load                                                                    *)
(***************************************************************************)
\* <CodeStorage<T>>::get(code_hash): an Option
CodeStorageGetOrDefault(cs, code_hash) ==
    IF cs[code_hash] # None THEN cs[code_hash]
    ELSE Some([schedule_version |-> 1,
               code |-> [src |-> 1, ver |-> 1],
               refcount |-> 1])
CodeStorageGet(cs, code_hash) == cs[code_hash]

\* prefab_module.schedule_version < schedule.version
NeedsReinstrumentLeq(prefab_module, schedule) ==
    prefab_module.schedule_version <= schedule.version
NeedsReinstrumentGt(prefab_module, schedule) ==
    prefab_module.schedule_version > schedule.version
NeedsReinstrumentNeq(prefab_module, schedule) ==
    prefab_module.schedule_version # schedule.version
NeedsReinstrument(prefab_module, schedule) ==
    prefab_module.schedule_version < schedule.version

\* <CodeStorage<T>>::insert(&code_hash, &prefab_module)
InsertCodeStorageSkip(cs, code_hash, prefab_module) == cs
InsertCodeStorageOnly(cs, code_hash, prefab_module) ==
    [h \in DOMAIN cs |->
        IF h = code_hash THEN Some(ToStorage(prefab_module)) ELSE None]
InsertCodeStorage(cs, code_hash, prefab_module) ==
    [cs EXCEPT ![code_hash] = Some(ToStorage(prefab_module))]

\* the outcome of the `?` on prepare_contract's result
PreparedOrStale(cs, code_hash, stale, prepared) ==
    IF prepared.tag = "Ok"
    THEN [CodeStorage |-> InsertCodeStorage(cs, code_hash, prepared.module),
          result |-> [tag |-> "Ok",
                      module |-> [prepared.module EXCEPT !.code_hash = code_hash]]]
    ELSE [CodeStorage |-> cs,
          result |-> [tag |-> "Ok",
                      module |-> [stale EXCEPT !.code_hash = code_hash]]]
PreparedOrEvicted(cs, code_hash, stale, prepared) ==
    IF prepared.tag = "Ok"
    THEN [CodeStorage |-> InsertCodeStorage(cs, code_hash, prepared.module),
          result |-> [tag |-> "Ok",
                      module |-> [prepared.module EXCEPT !.code_hash = code_hash]]]
    ELSE [CodeStorage |-> [cs EXCEPT ![code_hash] = None],
          result |-> [tag |-> "Err", error |-> prepared.error]]
Prepared(cs, code_hash, stale, prepared) ==
    IF prepared.tag = "Ok"
    THEN [CodeStorage |-> InsertCodeStorage(cs, code_hash, prepared.module),
          result |-> [tag |-> "Ok",
                      module |-> [prepared.module EXCEPT !.code_hash = code_hash]]]
    ELSE [CodeStorage |-> cs,
          result |-> [tag |-> "Err", error |-> prepared.error]]

\* load(code_hash, schedule): the new CodeStorage, the result, the number of
\* calls of prepare_contract, the outcome of that call and the number of
\* reads of PristineCode
load(cs, pc, code_hash, schedule, accepted) ==
    LET got == CodeStorageGet(cs, code_hash) IN
    IF got = None
    THEN [CodeStorage |-> cs, instrumented |-> 0, prepared |-> "none",
          pristine_reads |-> 0,
          result |-> [tag |-> "Err", error |-> "CodeNotFound"]]
    ELSE
    LET prefab_module == FromStorage(Unwrap(got)) IN
    IF NeedsReinstrument(prefab_module, schedule)
    THEN LET original_code == pc[code_hash] IN
         IF original_code = None
         THEN [CodeStorage |-> cs, instrumented |-> 0, prepared |-> "none",
               pristine_reads |-> 1,
               result |-> [tag |-> "Err", error |-> "CodeNotFound"]]
         ELSE LET prepared == prepare_contract(Unwrap(original_code),
                                               schedule, accepted)
                  p == Prepared(cs, code_hash, prefab_module, prepared)
              IN  [CodeStorage |-> p.CodeStorage, instrumented |-> 1,
                   prepared |-> prepared.tag, pristine_reads |-> 1,
                   result |-> p.result]
    ELSE [CodeStorage |-> cs, instrumented |-> 0, prepared |-> "none",
          pristine_reads |-> 0,
          result |-> [tag |-> "Ok",
                      module |-> [prefab_module EXCEPT !.code_hash = code_hash]]]

(***************************************************************************)
(* The state machine.                                                      *)
(***************************************************************************)
VARIABLES
    PristineCode,   \* code hash -> Option<raw code>
    CodeStorage,    \* code hash -> Option<stored module>
    call,           \* the last call: what it was given and its outcome
    pre,            \* both maps as they were before the last call
    stores,         \* history: per hash, the number of stores registering it
    derived,        \* history: per hash, the last re-instrumentation by load
    registered      \* history: every new entry came with its original code

vars == <<PristineCode, CodeStorage, call, pre, stores, derived, registered>>

Init ==
    /\ PristineCode = [h \in CodeHashes |-> None]
    /\ CodeStorage = [h \in CodeHashes |-> None]
    /\ call = [op |-> "init", panic |-> FALSE]
    /\ pre = [PristineCode |-> [h \in CodeHashes |-> None],
              CodeStorage |-> [h \in CodeHashes |-> None]]
    /\ stores = [h \in CodeHashes |-> 0]
    /\ derived = [of |-> [h \in CodeHashes |-> None],
                  was |-> [h \in CodeHashes |-> None]]
    /\ registered = TRUE

\* the module the last call stored, if that call was a store for a hash that
\* was in neither map
StoredAnew ==
    IF /\ call.op = "store"
       /\ pre.CodeStorage[call.code_hash] = None
       /\ pre.PristineCode[call.code_hash] = None
    THEN call.new_module
    ELSE None

\* a call of store; a panic ends the execution.  The call is recorded with
\* the hash and the original code of the module; the whole module is
\* recorded as new_module when the hash has no entry (for an existing entry
\* store reads nothing else of the module).
StoreCall ==
    /\ ~call.panic
    /\ \E prefab_module \in PrefabWasmModule :
       \E overflow_checks \in
            IF Overflows(CodeStorage[prefab_module.code_hash])
            THEN BOOLEAN ELSE {FALSE} :
       \E s \in {store(CodeStorage, PristineCode, prefab_module, overflow_checks)} :
            /\ PristineCode' = s.PristineCode
            /\ CodeStorage' = s.CodeStorage
            /\ call' = [op |-> "store", panic |-> s.panic,
                        code_hash |-> prefab_module.code_hash,
                        original_code |-> prefab_module.original_code,
                        new_module |->
                            IF CodeStorage[prefab_module.code_hash] = None
                            THEN Some(prefab_module) ELSE None,
                        ret |-> s.ret]
            /\ pre' = [PristineCode |-> PristineCode,
                       CodeStorage |-> CodeStorage]

\* a call of load
LoadCall ==
    /\ ~call.panic
    /\ \E code_hash \in CodeHashes, schedule \in Schedules, accepted \in BOOLEAN :
       \E l \in {load(CodeStorage, PristineCode, code_hash, schedule, accepted)} :
            /\ CodeStorage' = l.CodeStorage
            /\ UNCHANGED PristineCode
            /\ call' = [op |-> "load", panic |-> FALSE,
                        code_hash |-> code_hash,
                        schedule |-> schedule,
                        follows |-> StoredAnew,
                        instrumented |-> l.instrumented,
                        prepared |-> l.prepared,
                        pristine_reads |-> l.pristine_reads,
                        result |-> l.result]
            /\ pre' = [PristineCode |-> PristineCode,
                       CodeStorage |-> CodeStorage]

\* the calls, without the histories
Store == StoreCall /\ UNCHANGED <<stores, derived, registered>>
Load == LoadCall /\ UNCHANGED <<stores, derived, registered>>

Next == Store \/ Load

Spec == Init /\ [][Next]_vars

(***************************************************************************)
(* The calls with the history `stores`: for each hash, the number k of     *)
(* stores since the hash was in neither map, as long as the first of them  *)
(* carried the original code and refcount 1 and the later ones no original *)
(* code; 0 when there is no such sequence.  k stays within the refcount    *)
(* type.                                                                   *)
(***************************************************************************)
CountStore(k) ==
    IF pre'.CodeStorage[call'.code_hash] = None
       /\ pre'.PristineCode[call'.code_hash] = None
    THEN IF call'.original_code # None
            /\ Unwrap(call'.new_module).refcount = 1
         THEN 1 ELSE 0
    ELSE IF k >= 1 /\ call'.original_code = None
         THEN k + 1 ELSE 0

StoreCounted ==
    /\ StoreCall
    /\ stores[call'.code_hash] < MaxRefcount
    /\ stores' =
         IF call'.panic THEN stores
         ELSE [stores EXCEPT ![call'.code_hash] = CountStore(@)]
    /\ UNCHANGED <<derived, registered>>

LoadCounted == LoadCall /\ UNCHANGED <<stores, derived, registered>>

NextCounted == StoreCounted \/ LoadCounted

SpecCounted == Init /\ [][NextCounted]_vars

(***************************************************************************)
(* The calls with the history `derived`: for each hash, the version and    *)
(* code of the last successful re-instrumentation by load, forgotten when  *)
(* the hash is loaded with another version; `was` is `of` before the last  *)
(* call.                                                                   *)
(***************************************************************************)
DerivedAfterLoad(d) ==
    IF call'.prepared = "Ok"
    THEN Some([schedule_version |-> call'.schedule.version,
               code |-> call'.result.module.code])
    ELSE IF d # None /\ Unwrap(d).schedule_version = call'.schedule.version
         THEN d ELSE None

StoreDerived ==
    /\ StoreCall
    /\ derived' = [of |-> derived.of, was |-> derived.of]
    /\ UNCHANGED <<stores, registered>>

LoadDerived ==
    /\ LoadCall
    /\ derived' = [of |-> [derived.of EXCEPT ![call'.code_hash] =
                              DerivedAfterLoad(@)],
                   was |-> derived.of]
    /\ UNCHANGED <<stores, registered>>

NextDerived == StoreDerived \/ LoadDerived

SpecDerived == Init /\ [][NextDerived]_vars

(***************************************************************************)
(* The calls with the history `registered`: no store so far has put an     *)
(* entry for a hash without CodeStorage entry without carrying the         *)
(* original code.                                                          *)
(***************************************************************************)
StoreRegistered ==
    /\ StoreCall
    /\ registered' =
         /\ registered
         /\ ~ /\ CodeStorage[call'.code_hash] = None
              /\ call'.original_code = None
    /\ UNCHANGED <<stores, derived>>

LoadRegistered == LoadCall /\ UNCHANGED <<stores, derived, registered>>

NextRegistered == StoreRegistered \/ LoadRegistered

SpecRegistered == Init /\ [][NextRegistered]_vars

(***************************************************************************)
(* The last call, as the properties below read it.                         *)
(***************************************************************************)
\* the CodeStorage entry of the hash of the last call, before and after it
PreModule == pre.CodeStorage[call.code_hash]
PostModule == CodeStorage[call.code_hash]
\* the PristineCode entry of the hash of the last call, before it
PreCode == pre.PristineCode[call.code_hash]

LoadReturned == call.op = "load"
LoadSucceeded == call.op = "load" /\ call.result.tag = "Ok"
LoadFailedWith(error) ==
    call.op = "load" /\ call.result.tag = "Err" /\ call.result.error = error
StoreReturned == call.op = "store" /\ ~call.panic

\* the last call wrote to neither map
StoresUnchanged ==
    /\ CodeStorage = pre.CodeStorage
    /\ PristineCode = pre.PristineCode

(***************************************************************************)
(* C1: freshness.  A successful load with a schedule version not lower     *)
(* than the version of the cached module returns a module whose            *)
(* schedule_version is the version of the schedule, and leaves a cached    *)
(* module of that version under the hash.                                  *)
(***************************************************************************)
C1_Freshness ==
    ( /\ LoadSucceeded
      /\ PreModule # None
      /\ call.schedule.version >= Unwrap(PreModule).schedule_version )
    => /\ call.result.module.schedule_version = call.schedule.version
       /\ PostModule # None
       /\ Unwrap(PostModule).schedule_version = call.schedule.version

\* a load that found a module of a lower version and re-instrumented it
C1_Witness ==
    /\ LoadSucceeded
    /\ PreModule # None
    /\ Unwrap(PreModule).schedule_version < call.schedule.version
    /\ call.instrumented = 1
    /\ Unwrap(PostModule).schedule_version = call.schedule.version

(***************************************************************************)
(* C2: load never changes the refcount stored under the loaded hash, also  *)
(* when it re-instruments the module.                                      *)
(***************************************************************************)
C2_LoadKeepsRefcount ==
    LoadReturned =>
        IF PreModule = None
        THEN PostModule = None
        ELSE /\ PostModule # None
             /\ Unwrap(PostModule).refcount = Unwrap(PreModule).refcount

(***************************************************************************)
(* C3: store then load at the same version.  A load that follows the store *)
(* of a module with its original code under a hash that was in neither     *)
(* map, with the schedule version of that module, succeeds, returns the    *)
(* stored code with that version and the hash, does not call               *)
(* prepare_contract and writes to neither map.                             *)
(***************************************************************************)
C3_Precondition ==
    /\ LoadReturned
    /\ call.follows # None
    /\ Unwrap(call.follows).code_hash = call.code_hash
    /\ Unwrap(call.follows).original_code # None
    /\ Unwrap(call.follows).schedule_version = call.schedule.version

C3_StoreLoadRoundTrip ==
    C3_Precondition =>
        /\ LoadSucceeded
        /\ call.result.module.code = Unwrap(call.follows).code
        /\ call.result.module.schedule_version
              = Unwrap(call.follows).schedule_version
        /\ call.result.module.code_hash = Unwrap(call.follows).code_hash
        /\ call.instrumented = 0
        /\ StoresUnchanged

\* such a load, of a module the Instrumentor would produce another code for
C3_Witness ==
    /\ C3_Precondition
    /\ LoadSucceeded
    /\ call.result.module.code
          # Instrument(Unwrap(PreCode), call.schedule)

(***************************************************************************)
(* C4: refcount accumulation.  After k >= 1 stores for a hash that was in  *)
(* neither map (the first with the original code and refcount 1, the later *)
(* ones without original code), with any loads in between, PristineCode    *)
(* has the entry of the hash and the CodeStorage entry has refcount k.     *)
(***************************************************************************)
C4_RefcountAccumulation ==
    \A h \in CodeHashes :
        stores[h] >= 1 =>
            /\ PristineCode[h] # None
            /\ CodeStorage[h] # None
            /\ Unwrap(CodeStorage[h]).refcount = stores[h]

(***************************************************************************)
(* C5: a failed derivation leaves the cache as it was.  When load finds a  *)
(* module of a lower version and prepare_contract fails, load returns that *)
(* error, and both maps are as before the call.                            *)
(***************************************************************************)
C5_Precondition ==
    /\ LoadReturned
    /\ PreModule # None
    /\ Unwrap(PreModule).schedule_version < call.schedule.version
    /\ call.prepared = "Err"

C5_FailedDerivationKeepsCache ==
    C5_Precondition =>
        /\ LoadFailedWith("InstrumentationFailed")
        /\ StoresUnchanged

C5_Witness ==
    /\ C5_Precondition
    /\ LoadFailedWith("InstrumentationFailed")
    /\ PostModule = PreModule

(***************************************************************************)
(* C6: lookup miss.  A load of a hash without a CodeStorage entry fails    *)
(* with CodeNotFound, does not call prepare_contract and writes to neither *)
(* map.                                                                    *)
(***************************************************************************)
C6_LookupMiss ==
    (LoadReturned /\ PreModule = None) =>
        /\ LoadFailedWith("CodeNotFound")
        /\ call.instrumented = 0
        /\ StoresUnchanged

\* a miss while the other hash is stored, with its original code
C6_Witness ==
    /\ LoadFailedWith("CodeNotFound")
    /\ PreModule = None
    /\ \E h \in CodeHashes : CodeStorage[h] # None /\ PristineCode[h] # None

(***************************************************************************)
(* C7: re-derivation happens once per version advance.  As claimed: a load *)
(* that finds a module of a lower version calls prepare_contract exactly   *)
(* once; and after a successful re-instrumentation under a version, every  *)
(* later load with that version (stores of the hash and loads with that    *)
(* version in between) calls it zero times and returns the same code with  *)
(* that version.                                                           *)
(***************************************************************************)
C7_LaterLoadsHit ==
    ( /\ LoadReturned
      /\ derived.was[call.code_hash] # None
      /\ Unwrap(derived.was[call.code_hash]).schedule_version
            = call.schedule.version )
    => /\ call.instrumented = 0
       /\ LoadSucceeded
       /\ call.result.module.code = Unwrap(derived.was[call.code_hash]).code
       /\ call.result.module.schedule_version = call.schedule.version

C7_OncePerAdvance_Original ==
    /\ ( /\ LoadReturned
         /\ PreModule # None
         /\ Unwrap(PreModule).schedule_version < call.schedule.version )
       => call.instrumented = 1
    /\ C7_LaterLoadsHit

\* C7 as amended: the same, for a hash whose original code is in
\* PristineCode
C7_OncePerAdvance ==
    /\ ( /\ LoadReturned
         /\ PreModule # None
         /\ Unwrap(PreModule).schedule_version < call.schedule.version
         /\ PreCode # None )
       => call.instrumented = 1
    /\ C7_LaterLoadsHit

\* a load that hits the module an earlier load re-instrumented, after a store
\* of the hash in between
C7_Witness ==
    /\ LoadSucceeded
    /\ call.instrumented = 0
    /\ derived.was[call.code_hash] # None
    /\ Unwrap(derived.was[call.code_hash]).schedule_version
          = call.schedule.version
    /\ call.result.module.code = Unwrap(derived.was[call.code_hash]).code
    /\ Unwrap(PreModule).refcount > 1

(***************************************************************************)
(* C8: load with a schedule version lower than the cached one succeeds,    *)
(* returns the cached code with its cached version, does not call          *)
(* prepare_contract and writes to neither map.                             *)
(***************************************************************************)
C8_Precondition ==
    /\ LoadReturned
    /\ PreModule # None
    /\ Unwrap(PreModule).schedule_version > call.schedule.version

C9_Inserted ==
    (call.op = "store" /\ PreModule = None) =>
        /\ call.new_module # None
        /\ PostModule = Some(ToStorage(Unwrap(call.new_module)))

C9_StoreIncrementOnly_Original ==
    /\ C9_Inserted
    /\ (call.op = "store" /\ PreModule # None) =>
          PostModule = Some([Unwrap(PreModule) EXCEPT !.refcount = @ + 1])

\* C9 as amended: the same, for an existing entry whose refcount is below
\* the largest value of its type
C9_StoreIncrementOnly ==
    /\ C9_Inserted
    /\ ( /\ call.op = "store"
         /\ PreModule # None
         /\ Unwrap(PreModule).refcount < MaxRefcount )
       => PostModule = Some([Unwrap(PreModule) EXCEPT !.refcount = @ + 1])

\* a store for a hash with an entry that a load has re-instrumented, which
\* adds 1 to its refcount, while the other hash got its entry by a store
C9_Witness ==
    /\ StoreReturned
    /\ PreModule # None
    /\ Unwrap(PreModule).refcount < MaxRefcount
    /\ Unwrap(PreModule).schedule_version > 1
    /\ Unwrap(PostModule).refcount = Unwrap(PreModule).refcount + 1
    /\ \A h \in CodeHashes : CodeStorage[h] # None

(***************************************************************************)
(* C10: raw code is always present behind an artifact.  As claimed: every  *)
(* hash with a CodeStorage entry has a PristineCode entry, and load never  *)
(* fails with CodeNotFound on the read of the original code.               *)
(***************************************************************************)
C10_RawBehindArtifact ==
    /\ \A h \in CodeHashes : CodeStorage[h] # None => PristineCode[h] # None
    /\ ~(LoadFailedWith("CodeNotFound") /\ PreModule # None)

\* C10 as amended: the same, as long as every store for a hash without
\* CodeStorage entry carried the original code
C10_RawBehindRegisteredArtifact == registered => C10_RawBehindArtifact

\* both hashes stored, one of them re-instrumented by the last call
C10_Witness ==
    /\ registered
    /\ \A h \in CodeHashes : CodeStorage[h] # None /\ PristineCode[h] # None
    /\ LoadSucceeded
    /\ call.instrumented = 1

(***************************************************************************)
(* C11: a cache hit has no effect.  A load with the schedule version of    *)
(* the cached module writes to neither map, does not read PristineCode,    *)
(* does not call prepare_contract and returns the cached code and version. *)
(***************************************************************************)
C11_Precondition ==
    /\ LoadReturned
    /\ PreModule # None
    /\ Unwrap(PreModule).schedule_version = call.schedule.version

C11_CacheHitNoEffect ==
    C11_Precondition =>
        /\ StoresUnchanged
        /\ call.pristine_reads = 0
        /\ call.instrumented = 0
        /\ LoadSucceeded
        /\ call.result.module.code = Unwrap(PreModule).code
        /\ call.result.module.schedule_version
              = Unwrap(PreModule).schedule_version

\* a hit on a module whose original code is in PristineCode and for which
\* prepare_contract would give another code
C11_Witness ==
    /\ C11_Precondition
    /\ LoadSucceeded
    /\ PreCode # None
    /\ call.result.module.code # Instrument(Unwrap(PreCode), call.schedule)
    /\ call.pristine_reads = 0

(***************************************************************************)
(* C12: the result of the re-instrumentation is what gets cached.  When    *)
(* load finds a module of a lower version, the original code is in         *)
(* PristineCode and prepare_contract succeeds, prepare_contract is called  *)
(* once, on the PristineCode entry of the hash and the given schedule, and *)
(* after the call the code and schedule_version of the CodeStorage entry   *)
(* are those of the returned module: the output of prepare_contract and    *)
(* the version of the schedule.                                            *)
(***************************************************************************)
C12_Precondition ==
    /\ LoadReturned
    /\ PreModule # None
    /\ Unwrap(PreModule).schedule_version < call.schedule.version
    /\ PreCode # None
    /\ call.prepared = "Ok"

C12_DerivedIsCached ==
    C12_Precondition =>
        /\ LoadSucceeded
        /\ call.instrumented = 1
        /\ call.result.module.code
              = Instrument(Unwrap(PreCode), call.schedule)
        /\ call.result.module.schedule_version = call.schedule.version
        /\ PostModule # None
        /\ Unwrap(PostModule).code = call.result.module.code
        /\ Unwrap(PostModule).schedule_version
              = call.result.module.schedule_version

\* such a load, replacing a code that was not derived from the original code
\* of the hash
C12_Witness ==
    /\ C12_Precondition
    /\ LoadSucceeded
    /\ Unwrap(PreModule).code.src # Unwrap(PreCode)
    /\ Unwrap(PostModule).code = Instrument(Unwrap(PreCode), call.schedule)

(***************************************************************************)
(* C13: PristineCode entries are write-once.  As long as every store that  *)
(* carries original code carries it under its digest (the stores of this   *)
(* model do), no call changes or removes a PristineCode entry that was     *)
(* there before it, a store carrying the original code of the hash again   *)
(* included.                                                               *)
(***************************************************************************)
C13_Precondition ==
    /\ \A h \in CodeHashes :
          pre.PristineCode[h] # None => Digest(Unwrap(pre.PristineCode[h])) = h
    /\ (call.op = "store" /\ call.original_code # None)
          => Digest(Unwrap(call.original_code)) = call.code_hash

C13_RawWriteOnce ==
    C13_Precondition =>
        \A h \in CodeHashes :
            pre.PristineCode[h] # None => PristineCode[h] = pre.PristineCode[h]

\* a store that carries the original code for a hash that has it already
C13_Witness ==
    /\ call.op = "store"
    /\ call.original_code # None
    /\ PreCode # None
    /\ PreModule # None
    /\ PristineCode[call.code_hash] = PreCode

(***************************************************************************)
(* C14: load never creates or deletes an entry.  After every load, failed  *)
(* or not, each map has entries for the hashes it had entries for before   *)
(* the call; and a load that writes CodeStorage writes the entry of a hash *)
(* that had one.                                                           *)
(***************************************************************************)
C14_LoadKeepsKeys ==
    LoadReturned =>
        /\ \A h \in CodeHashes :
              /\ (CodeStorage[h] = None) = (pre.CodeStorage[h] = None)
              /\ (PristineCode[h] = None) = (pre.PristineCode[h] = None)
        /\ CodeStorage # pre.CodeStorage => PreModule # None

\* a load that overwrote the entry of its hash while the other hash has no
\* entry in either map
C14_Witness ==
    /\ LoadSucceeded
    /\ call.instrumented = 1
    /\ CodeStorage # pre.CodeStorage
    /\ \E h \in CodeHashes : CodeStorage[h] = None /\ PristineCode[h] = None

(***************************************************************************)
(* C15: missing original code on the stale path.  When load finds a module *)
(* of a lower version and PristineCode has no entry for the hash, load     *)
(* fails with CodeNotFound, does not call prepare_contract and leaves the  *)
(* CodeStorage entry as it was.                                            *)
(***************************************************************************)
C15_Precondition ==
    /\ LoadReturned
    /\ PreModule # None
    /\ Unwrap(PreModule).schedule_version < call.schedule.version
    /\ PreCode = None

C15_MissingRawOnStalePath ==
    C15_Precondition =>
        /\ LoadFailedWith("CodeNotFound")
        /\ call.instrumented = 0
        /\ PostModule = PreModule

\* such a load, which has read PristineCode, while the other hash has its
\* original code stored
C15_Witness ==
    /\ C15_Precondition
    /\ LoadFailedWith("CodeNotFound")
    /\ call.pristine_reads = 1
    /\ \E h \in CodeHashes : PristineCode[h] # None

(***************************************************************************)
(* C16: refcount overflow is fatal, never a wraparound.  A store for a     *)
(* hash whose entry has the largest refcount of the type ends in a panic,  *)
(* and no store leaves an entry with a refcount smaller than the entry had *)
(* before the call.                                                        *)
(***************************************************************************)
C16_OverflowFatal ==
    (call.op = "store" /\ PreModule # None) =>
        /\ Unwrap(PreModule).refcount = MaxRefcount => call.panic
        /\ PostModule # None
        /\ Unwrap(PostModule).refcount >= Unwrap(PreModule).refcount

(***************************************************************************)
(* C17: store trusts its input.  Every store for a hash without an entry   *)
(* at the largest refcount returns, with the hash the module carried on    *)
(* entry; it writes PristineCode only when the module carries original     *)
(* code, and then that code under that hash; and it derives and compares   *)
(* nothing: a new entry has the code and version of the module as given,   *)
(* an existing entry keeps its code and version whatever those of the      *)
(* module are.                                                             *)
(***************************************************************************)
C17_Precondition ==
    /\ call.op = "store"
    /\ PreModule # None => Unwrap(PreModule).refcount < MaxRefcount

C17_StoreTrustsInput ==
    C17_Precondition =>
        /\ ~call.panic
        /\ call.ret = Some(call.code_hash)
        /\ PristineCode =
              IF call.original_code # None
              THEN [pre.PristineCode EXCEPT ![call.code_hash] = call.original_code]
              ELSE pre.PristineCode
        /\ PostModule # None
        /\ IF PreModule = None
           THEN /\ Unwrap(PostModule).code = Unwrap(call.new_module).code
                /\ Unwrap(PostModule).schedule_version
                      = Unwrap(call.new_module).schedule_version
           ELSE /\ Unwrap(PostModule).code = Unwrap(PreModule).code
                /\ Unwrap(PostModule).schedule_version
                      = Unwrap(PreModule).schedule_version

\* a store of a module with original code whose code is not the one
\* prepare_contract derives from that original code, stored as given
C17_Witness ==
    /\ C17_Precondition
    /\ StoreReturned
    /\ PreModule = None
    /\ call.original_code # None
    /\ Unwrap(PostModule).code.src # Unwrap(call.original_code)
    /\ call.ret = Some(call.code_hash)

C19_OtherHashesUntouched ==
    call.op \in {"store", "load"} =>
        \A h \in CodeHashes \ {call.code_hash} :
            /\ CodeStorage[h] = pre.CodeStorage[h]
            /\ PristineCode[h] = pre.PristineCode[h]

\* a store that wrote both entries of its hash while the other hash has an
\* entry in both maps, re-instrumented by an earlier load
C19_Witness ==
    /\ StoreReturned
    /\ PostModule # PreModule
    /\ PristineCode[call.code_hash] # PreCode
    /\ \E h \in CodeHashes \ {call.code_hash} :
          /\ CodeStorage[h] # None
          /\ PristineCode[h] # None
          /\ Unwrap(CodeStorage[h]).schedule_version > 1
          /\ Unwrap(CodeStorage[h]).code
                = Instrument(Unwrap(PristineCode[h]),
                             [version |-> Unwrap(CodeStorage[h]).schedule_version])
====
